---------------------------- MODULE Spec2Model ----------------------------
(***************************************************************************)
(* Model of llama_chatbot.py: the ChatBot object (chat_history,            *)
(* system_prompt, current_chat_file), the chat_history directory, and the  *)
(* command loop of main().                                                 *)
(*                                                                         *)
(* Text is a sequence of one-character strings, so that strip, endswith,   *)
(* the substring test, replace and split are computed character by         *)
(* character as Python computes them.                                      *)
(***************************************************************************)
EXTENDS Integers, Sequences, FiniteSets, TLC

(***************************************************************************)
(* Bounds of the model.                                                    *)
(***************************************************************************)
\* chat is not started when the store already holds MaxTurns - 1 turns
MaxTurns == 4
\* the clock of the host stops at MaxTime
MaxTime == 1
\* the engine yields at most MaxEvents chunks in a call
MaxEvents == 4

\* None where a text is expected. The program tests these values by their
\* truth only (not custom_filename, if self.current_chat_file, if args), and
\* None and the empty text are both false
None == << >>
\* finish_reason of a chunk while the generation goes on
NoReason == "None"

(***************************************************************************)
(* Python str methods, on sequences of characters.                         *)
(***************************************************************************)
IsSpace(c) == c \in {" ", "\n", "\t"}

RECURSIVE LStrip(_)
LStrip(s) ==
    IF s = << >> THEN << >>
    ELSE IF IsSpace(Head(s)) THEN LStrip(Tail(s)) ELSE s

RECURSIVE RStrip(_)
RStrip(s) ==
    IF s = << >> THEN << >>
    ELSE IF IsSpace(s[Len(s)]) THEN RStrip(SubSeq(s, 1, Len(s) - 1)) ELSE s

\* str.strip()
Strip(s) == RStrip(LStrip(s))

\* str.startswith(p)
StartsWith(s, p) == Len(s) >= Len(p) /\ SubSeq(s, 1, Len(p)) = p

\* str.endswith(p)
EndsWith(s, p) ==
    Len(s) >= Len(p) /\ SubSeq(s, Len(s) - Len(p) + 1, Len(s)) = p

\* p in s
Contains(s, p) ==
    \E i \in 1..(Len(s) - Len(p) + 1) : SubSeq(s, i, i + Len(p) - 1) = p

\* s.replace(p, ""): every occurrence of p, left to right, is removed
RECURSIVE RemoveAll(_, _)
RemoveAll(s, p) ==
    IF s = << >> THEN << >>
    ELSE IF StartsWith(s, p) THEN RemoveAll(SubSeq(s, Len(p) + 1, Len(s)), p)
    ELSE <<Head(s)>> \o RemoveAll(Tail(s), p)

LowerChar(c) ==
    CASE c = "S" -> "s" [] c = "A" -> "a" [] c = "V" -> "v" [] c = "E" -> "e"
      [] c = "L" -> "l" [] c = "I" -> "i" [] c = "T" -> "t" [] c = "Q" -> "q"
      [] c = "U" -> "u" [] c = "H" -> "h" [] c = "P" -> "p"
      [] OTHER -> c

\* str.lower()
Lower(s) == [i \in 1..Len(s) |-> LowerChar(s[i])]

\* the first whitespace-delimited word of s and what is left after it
RECURSIVE FirstWord(_)
FirstWord(s) ==
    IF s = << >> \/ IsSpace(Head(s)) THEN << >>
    ELSE <<Head(s)>> \o FirstWord(Tail(s))

\* str.split(maxsplit=1): at most two parts, split at the first run of
\* whitespace; leading whitespace is skipped, and the second part keeps
\* its own trailing characters
Split1(s) ==
    LET t == LStrip(s)
        w == FirstWord(t)
        r == LStrip(SubSeq(t, Len(w) + 1, Len(t)))
    IN  IF t = << >> THEN << >>
        ELSE IF r = << >> THEN <<w>>
        ELSE <<w, r>>

(***************************************************************************)
(* Fixed texts of the program.                                             *)
(***************************************************************************)
\* "<|eot_id|>", the stop marker
EOT_ID == <<"<", "|", "e", "o", "t", "_", "i", "d", "|", ">">>
\* ".json"
JSON_EXT == <<".", "j", "s", "o", "n">>
\* "chat_"
CHAT_PREFIX == <<"c", "h", "a", "t", "_">>
\* SYSTEM_PROMPT: the text itself is never inspected by the program; a
\* short text stands for the four paragraphs of the source
SYSTEM_PROMPT == <<"B", "e", " ", "w", "a", "r", "m", ".">>

W_save == <<"s", "a", "v", "e">>
W_history == <<"h", "i", "s", "t", "o", "r", "y">>
W_clear == <<"c", "l", "e", "a", "r">>
W_list == <<"l", "i", "s", "t">>
W_help == <<"h", "e", "l", "p">>
W_stats == <<"s", "t", "a", "t", "s">>
\* the markers of the Llama 3.1 Instruct format, lines 116-136
BEGIN_OF_TEXT ==
    <<"<", "|", "b", "e", "g", "i", "n", "_", "o", "f", "_", "t", "e", "x", "t",
      "|", ">">>
START_HEADER_ID ==
    <<"<", "|", "s", "t", "a", "r", "t", "_", "h", "e", "a", "d", "e", "r", "_",
      "i", "d", "|", ">">>
END_HEADER_ID ==
    <<"<", "|", "e", "n", "d", "_", "h", "e", "a", "d", "e", "r", "_", "i", "d",
      "|", ">">>
R_system == <<"s", "y", "s", "t", "e", "m">>
R_user == <<"u", "s", "e", "r">>
R_assistant == <<"a", "s", "s", "i", "s", "t", "a", "n", "t">>

\* the exceptions that reach the handler of lines 397-400, as the traceback
\* names them
EOF_ERROR == <<"E", "O", "F", "E", "r", "r", "o", "r">>
INDEX_ERROR == <<"I", "n", "d", "e", "x", "E", "r", "r", "o", "r">>
OS_ERROR == <<"O", "S", "E", "r", "r", "o", "r">>

QuitNames == { <<"q", "u", "i", "t">>, <<"e", "x", "i", "t">>, <<"q">> }
KnownNames == QuitNames \cup {W_help, W_clear, W_save, W_list, W_stats, W_history}

(***************************************************************************)
(* What the user may type (raw lines, before strip) and what the engine    *)
(* may stream.                                                             *)
(***************************************************************************)
T_Hi == <<"H", "i">>
T_Hello == <<"H", "e", "l", "l", "o", "!">>

UserTexts == { T_Hi \o <<" ">> }

Slash(s) == <<"/">> \o s

SaveArgs ==
    { <<"a">>,
      <<".", ".", "/", "b">> \o JSON_EXT }

CommandLines ==
    { Slash(W_help),
      Slash(W_clear),
      Slash(W_save),
      Slash(W_list),
      Slash(W_stats),
      Slash(W_history),
      Slash(W_history \o <<" ", "-", "1">>),
      Slash(W_history \o <<" ", "x">>),
      Slash(<<"q", "u", "i", "t">>),
      Slash(<<"E", "x", "i", "t">>),
      Slash(<<"l", "o", "a", "d">>),
      <<"/">>,
      << >>,
      <<" ">> }
    \cup { Slash(<<"S", "a", "v", "e", " ">> \o a) : a \in SaveArgs }

Lines == CommandLines \cup UserTexts

\* answers to a y/n question
Answers == { <<"y">>, <<" ", "Y">>, <<"n">>, << >>, <<"y", "e", "s">> }

\* a generation event: the "choices" list of the chunk; a choice carries a
\* text and a finish_reason (None while the generation goes on)
Ev(text, reason) ==
    [choices |-> << [text |-> text, finish_reason |-> reason] >>]
NoChoices == [choices |-> << >>]

\* the streams of the engine in the command loop
LoopStreams ==
    { << Ev(T_Hello, NoReason), Ev(<< >>, "stop") >>,
      << Ev(<<"H", "e", "l">>, NoReason), Ev(<<"l", "o", "!">> \o EOT_ID, NoReason) >>,
      << Ev(<<" ">>, NoReason), Ev(<<"\n">>, NoReason) >>,
      << Ev(<<"a">>, NoReason) >> }

\* the chunks and the streams of the engine when chat is checked alone
Events ==
    { Ev(<<"H", "e", "l">>, NoReason),
      Ev(<<"l", "o">>, NoReason),
      Ev(<<"!">>, NoReason),
      Ev(<<" ">>, NoReason),
      Ev(EOT_ID, NoReason),
      Ev(<<"a">> \o EOT_ID \o <<"b">>, NoReason),
      Ev(<<"z">>, "stop"),
      Ev(<<"w">>, "length"),
      NoChoices }

StreamsUpTo(n) == UNION { [1..k -> Events] : k \in 0..n }
AllStreams == StreamsUpTo(MaxEvents)
ShortStreams == StreamsUpTo(MaxEvents - 2)

(***************************************************************************)
(* State.                                                                  *)
(***************************************************************************)
VARIABLES
    chat_history,       \* ChatBot.chat_history: the turns, in order
    system_prompt,      \* ChatBot.system_prompt
    current_chat_file,  \* ChatBot.current_chat_file: a file name or None
    files,              \* the files, by their path relative to chat_history/
    now,                \* the clock of the host, in seconds
    pc,                 \* where the program is
    custom_filename,    \* the argument of the save_chat call under way
    confirm,            \* clear_chat's confirm, once the answer is read
    prompt,             \* chat's prompt: what the engine is called with
    stream,             \* the events the engine yields in the chat call under way
    pos,                \* how many of them chat has requested
    response_text,      \* chat's response_text
    printed,            \* what chat has printed of the response
    save,               \* main's save: the answer to "Save chat? (y/n)"
    out                 \* what the program printed last in the current pass
                        \* of the loop, with the names it shows

vars == << chat_history, system_prompt, current_chat_file, files, now, pc,
           custom_filename, confirm, prompt, stream, pos, response_text,
           printed, save, out >>

bot == << chat_history, system_prompt, current_chat_file >>
locals == << custom_filename, confirm, prompt, stream, pos, response_text,
            printed, save >>

Turn(role, content) == [role |-> role, content |-> content]
Notice(kind, names) == [kind |-> kind, names |-> names]

\* ChatBot.__init__ and main up to the loop: the model is loaded
Init ==
    /\ chat_history = << >>
    /\ system_prompt = SYSTEM_PROMPT
    /\ current_chat_file = None
    /\ files = << >>
    /\ now = 0
    /\ pc = "prompt"
    /\ custom_filename = None
    /\ confirm = None
    /\ prompt = << >>
    /\ stream = << >>
    /\ pos = 0
    /\ response_text = << >>
    /\ printed = << >>
    /\ save = None
    /\ out = Notice("banner", << >>)

(***************************************************************************)
(* main: reading a line, lines 345-356.                                    *)
(***************************************************************************)
\* the locals main derives from the stripped line u, lines 353-356
IsCommand(u) == StartsWith(u, <<"/">>)
CommandParts(u) == Split1(Tail(u))
Command(u) == Lower(CommandParts(u)[1])
Args(u) == IF Len(CommandParts(u)) > 1 THEN CommandParts(u)[2] ELSE None

\* the lines that are the command with one of these names
LinesNamed(names) ==
    { line \in Lines :
        /\ IsCommand(Strip(line))
        /\ CommandParts(Strip(line)) # << >>
        /\ Command(Strip(line)) \in names }

\* how the if/elif chain of lines 349-391 sorts the lines
EmptyLines == { line \in Lines : Strip(line) = << >> }
NamelessLines ==
    { line \in Lines : IsCommand(Strip(line)) /\ CommandParts(Strip(line)) = << >> }
QuitLines == LinesNamed(QuitNames)
HelpLines == LinesNamed({W_help})
ClearLines == LinesNamed({W_clear})
SaveLines == LinesNamed({W_save})
ListLines == LinesNamed({W_list})
StatsLines == LinesNamed({W_stats})
HistoryLines == LinesNamed({W_history})
UnknownLines ==
    { line \in Lines :
        /\ IsCommand(Strip(line))
        /\ CommandParts(Strip(line)) # << >>
        /\ Command(Strip(line)) \notin KnownNames }
ChatLines ==
    { line \in Lines : Strip(line) # << >> /\ ~IsCommand(Strip(line)) }

\* time passes while the program waits for input
Tick ==
    /\ pc = "prompt"
    /\ now < MaxTime
    /\ now' = now + 1
    /\ UNCHANGED << bot, files, pc, locals, out >>

\* KeyboardInterrupt while waiting in input(): caught by the inner handler,
\* lines 393-395
ReadInterrupt ==
    /\ pc = "prompt"
    /\ out' = Notice("type_quit", << >>)
    /\ UNCHANGED << bot, files, now, pc, locals >>

\* EOFError from input(): an Exception, caught by the outer handler only
ReadEOF ==
    /\ pc = "prompt"
    /\ out' = Notice("unexpected_error", <<EOF_ERROR>>)
    /\ pc' = "finally"
    /\ UNCHANGED << bot, files, now, locals >>

\* if not user_input: continue
EmptyLine ==
    /\ pc = "prompt"
    /\ EmptyLines # {}
    /\ out' = Notice("nothing", << >>)
    /\ UNCHANGED << bot, files, now, pc, locals >>

\* command_parts[0] of an empty list: IndexError, caught by the outer handler
NoCommandName ==
    /\ pc = "prompt"
    /\ NamelessLines # {}
    /\ out' = Notice("unexpected_error", <<INDEX_ERROR>>)
    /\ pc' = "finally"
    /\ UNCHANGED << bot, files, now, locals >>

(***************************************************************************)
(* ChatBot.chat.  A KeyboardInterrupt is delivered where the program waits *)
(* or prints, and a call meets at most one fault (an interrupt or an       *)
(* error of the engine).                                                   *)
(***************************************************************************)
\* h[-1]
LastOf(h) == h[Len(h)]

\* list.pop()
Pop(h) == SubSeq(h, 1, Len(h) - 1)

PushFront(h, x) == <<x>> \o h

\* list.append(x)
Push(h, x) == Append(h, x)

OnlyEmpty(text) == text = << >>

\* not response_text or len(response_text) < 2
TooShort(text) == text = << >> \/ Len(text) < 2

\* choice.get("finish_reason") == "stop"
IsFinish(choice) == choice.finish_reason = "stop"

KeptWhole(token) == token

\* lines 151-158: what the loop adds to response_text for a token
Kept(token) ==
    IF Contains(token, EOT_ID) THEN RemoveAll(token, EOT_ID) ELSE token

\* lines 144-159: whether the loop goes on after this chunk
GoesOn(output) ==
    \/ Len(output.choices) = 0
    \/ /\ ~IsFinish(output.choices[1])
       /\ ~Contains(output.choices[1].text, EOT_ID)

\* lines 144-159: what this chunk adds to response_text
Added(output) ==
    IF Len(output.choices) = 0 \/ IsFinish(output.choices[1]) THEN << >>
    ELSE Kept(output.choices[1].text)

\* msg["role"] as text
RoleText(role) == IF role = "user" THEN R_user ELSE R_assistant

\* f"<|start_header_id|>{role}<|end_header_id|>\n\n"
Header(role) == START_HEADER_ID \o role \o END_HEADER_ID \o <<"\n", "\n">>

\* format_chat_history, lines 114-123, for system prompt sp and turns h
RECURSIVE FormatChatHistory(_, _)
FormatChatHistory(sp, h) ==
    IF h = << >>
    THEN BEGIN_OF_TEXT \o Header(R_system) \o sp \o EOT_ID
    ELSE FormatChatHistory(sp, Pop(h))
            \o Header(RoleText(LastOf(h).role)) \o LastOf(h).content \o EOT_ID

ChatPromptClosed(sp, h) ==
    FormatChatHistory(sp, h) \o Header(R_assistant) \o EOT_ID

\* lines 135-136: the prompt chat calls the engine with
ChatPrompt(sp, h) == FormatChatHistory(sp, h) \o Header(R_assistant)

\* return: the locals of the call are gone
ResetLocals ==
    /\ custom_filename' = None
    /\ confirm' = None
    /\ prompt' = << >>
    /\ stream' = << >>
    /\ pos' = 0
    /\ response_text' = << >>
    /\ printed' = << >>
    /\ UNCHANGED save

\* lines 131-143: the user turn is appended, the prompt formatted and
\* printed, the engine called; S is what the engine may stream
ChatCall(S) ==
    /\ pc = "prompt"
    /\ Len(chat_history) + 2 <= MaxTurns
    /\ \E line \in ChatLines :
          chat_history' = Push(chat_history, Turn("user", Strip(line)))
    /\ prompt' = ChatPrompt(system_prompt, chat_history')
    /\ \E s \in S : stream' = s
    /\ pos' = 0
    /\ response_text' = << >>
    /\ printed' = << >>
    /\ out' = Notice("generating", << >>)
    /\ pc' = "streaming"
    /\ UNCHANGED << system_prompt, current_chat_file, files, now,
                    custom_filename, confirm, save >>

\* KeyboardInterrupt in lines 133-141, after the append and before the try:
\* only the handler of main, lines 393-395, catches it
ChatCallInterrupted ==
    /\ pc = "prompt"
    /\ Len(chat_history) + 2 <= MaxTurns
    /\ \E line \in ChatLines :
          chat_history' = Push(chat_history, Turn("user", Strip(line)))
    /\ out' = Notice("type_quit", << >>)
    /\ UNCHANGED << system_prompt, current_chat_file, files, now, pc, locals >>

\* one iteration of the for loop, lines 143-159
StreamStep ==
    /\ pc = "streaming"
    /\ pos < Len(stream)
    /\ LET output == stream[pos + 1] IN
        /\ pos' = pos + 1
        /\ response_text' = response_text \o Added(output)
        /\ printed' = printed \o Added(output)
        /\ pc' = IF GoesOn(output) THEN "streaming" ELSE "post_loop"
    /\ UNCHANGED << bot, files, now, custom_filename, confirm, prompt, stream,
                    save, out >>

\* the generator is exhausted
StreamEnd ==
    /\ pc = "streaming"
    /\ pos = Len(stream)
    /\ pc' = "post_loop"
    /\ UNCHANGED << bot, files, now, locals, out >>

\* lines 161-171: the response is stripped, then kept or given up
PostLoop ==
    /\ pc = "post_loop"
    /\ LET text == Strip(response_text) IN
        IF TooShort(text)
        THEN /\ chat_history' = Pop(chat_history)
             /\ out' = Notice("no_response", << >>)
        ELSE /\ chat_history' = Push(chat_history, Turn("assistant", text))
             /\ out' = Notice("response", << >>)
    /\ pc' = "returning"
    /\ UNCHANGED << system_prompt, current_chat_file, files, now, locals >>

ChatInterruptDropsAll ==
    /\ pc \in {"streaming", "post_loop"}
    /\ chat_history' = << >>
    /\ out' = Notice("interrupted", << >>)
    /\ pc' = "returning"
    /\ UNCHANGED << system_prompt, current_chat_file, files, now, locals >>

\* except KeyboardInterrupt, lines 175-177
ChatInterrupt ==
    /\ pc \in {"streaming", "post_loop"}
    /\ chat_history' = Pop(chat_history)
    /\ out' = Notice("interrupted", << >>)
    /\ pc' = "returning"
    /\ UNCHANGED << system_prompt, current_chat_file, files, now, locals >>

ChatErrorNoRollback ==
    /\ pc = "streaming"
    /\ out' = Notice("chat_error", << >>)
    /\ pc' = "returning"
    /\ UNCHANGED << bot, files, now, locals >>

\* except Exception, lines 179-181: the engine raises in the loop
ChatError ==
    /\ pc = "streaming"
    /\ chat_history' = Pop(chat_history)
    /\ out' = Notice("chat_error", << >>)
    /\ pc' = "returning"
    /\ UNCHANGED << system_prompt, current_chat_file, files, now, locals >>

\* the return of lines 168, 173, 178 and 182, to the loop of main
ChatReturn ==
    /\ pc = "returning"
    /\ pc' = "prompt"
    /\ ResetLocals
    /\ UNCHANGED << bot, files, now, out >>

(***************************************************************************)
(* ChatBot.clear_chat.                                                     *)
(***************************************************************************)
IsYesLoose(answer) ==
    Lower(Strip(answer)) # << >> /\ Head(Lower(Strip(answer))) = "y"

\* input(...).strip().lower() == 'y'
IsYes(answer) == Lower(Strip(answer)) = <<"y">>

\* lines 186-190: an empty store is reported, otherwise the question is asked
ClearChat ==
    /\ pc = "prompt"
    /\ ClearLines # {}
    /\ IF chat_history = << >>
       THEN /\ out' = Notice("already_empty", << >>)
            /\ pc' = "prompt"
       ELSE /\ out' = Notice("clear_question", << >>)
            /\ pc' = "clear_confirm"
    /\ UNCHANGED << bot, files, now, locals >>

\* line 190: confirm = input("Clear chat? (y/n): ").strip().lower()
ClearAnswer ==
    /\ pc = "clear_confirm"
    /\ \E answer \in Answers : confirm' = Lower(Strip(answer))
    /\ pc' = "clear_decide"
    /\ UNCHANGED << bot, files, now, custom_filename, prompt, stream, pos,
                    response_text, printed, save, out >>

ClearDecideKeepsFile ==
    /\ pc = "clear_decide"
    /\ IF confirm = <<"y">>
       THEN /\ chat_history' = << >>
            /\ out' = Notice("cleared", << >>)
       ELSE /\ UNCHANGED chat_history
            /\ out' = Notice("cancelled", << >>)
    /\ pc' = "prompt"
    /\ confirm' = None
    /\ UNCHANGED << system_prompt, current_chat_file, files, now, custom_filename,
                    prompt, stream, pos, response_text, printed, save >>

\* lines 191-196
ClearDecide ==
    /\ pc = "clear_decide"
    /\ IF confirm = <<"y">>
       THEN /\ chat_history' = << >>
            /\ current_chat_file' = None
            /\ out' = Notice("cleared", << >>)
       ELSE /\ UNCHANGED << chat_history, current_chat_file >>
            /\ out' = Notice("cancelled", << >>)
    /\ pc' = "prompt"
    /\ confirm' = None
    /\ UNCHANGED << system_prompt, files, now, custom_filename, prompt, stream,
                    pos, response_text, printed, save >>

\* KeyboardInterrupt in the input() of line 190: main's inner handler
ClearInterrupt ==
    /\ pc = "clear_confirm"
    /\ out' = Notice("type_quit", << >>)
    /\ pc' = "prompt"
    /\ UNCHANGED << bot, files, now, locals >>

\* EOFError in the input() of line 190: main's outer handler
ClearEOF ==
    /\ pc = "clear_confirm"
    /\ out' = Notice("unexpected_error", <<EOF_ERROR>>)
    /\ pc' = "finally"
    /\ UNCHANGED << bot, files, now, locals >>

(***************************************************************************)
(* ChatBot.save_chat.                                                      *)
(***************************************************************************)
DigitChar(d) ==
    CASE d = 0 -> "0" [] d = 1 -> "1" [] d = 2 -> "2" [] d = 3 -> "3"
      [] d = 4 -> "4" [] d = 5 -> "5" [] d = 6 -> "6" [] d = 7 -> "7"
      [] d = 8 -> "8" [] d = 9 -> "9"

RECURSIVE Decimal(_)
Decimal(n) ==
    IF n < 10 THEN <<DigitChar(n)>>
    ELSE Decimal(n \div 10) \o <<DigitChar(n % 10)>>

\* f"chat_{timestamp}.json": the timestamp has second precision
GeneratedName(t) == CHAT_PREFIX \o Decimal(t) \o JSON_EXT

\* custom_filename if custom_filename.endswith('.json') else f"{custom_filename}.json"
WithExtension(name) ==
    IF EndsWith(name, JSON_EXT) THEN name ELSE name \o JSON_EXT

ResolveCurrentFirst(custom, current, t) ==
    IF current # None THEN current
    ELSE IF custom = None THEN GeneratedName(t) ELSE WithExtension(custom)

\* lines 205-212: the file name save_chat writes to
ResolveFilename(custom, current, t) ==
    IF custom = None
    THEN IF current # None THEN current ELSE GeneratedName(t)
    ELSE WithExtension(custom)

\* a file of the host: when it was last written
File(t) == [mtime |-> t]

\* open(filepath, 'w') and the writes that follow
WriteFile(fs, name, t) == (name :> File(t)) @@ fs

SaveSucceedsUnlinked(filename) ==
    /\ files' = WriteFile(files, filename, now)
    /\ out' = Notice("saved", <<filename>>)
    /\ UNCHANGED current_chat_file

\* lines 223-228 when nothing fails
SaveSucceeds(filename) ==
    /\ files' = WriteFile(files, filename, now)
    /\ current_chat_file' = filename
    /\ out' = Notice("saved", <<filename>>)

\* open() raises: nothing is written, lines 229-230
OpenFails(filename) ==
    /\ out' = Notice("save_error", << >>)
    /\ UNCHANGED << files, current_chat_file >>

DumpFailsLinked(filename) ==
    /\ files' = WriteFile(files, filename, now)
    /\ current_chat_file' = filename
    /\ out' = Notice("save_error", << >>)

\* json.dump raises after open() has created or truncated the file,
\* lines 229-230
DumpFails(filename) ==
    /\ files' = WriteFile(files, filename, now)
    /\ out' = Notice("save_error", << >>)
    /\ UNCHANGED current_chat_file

\* elif command == 'save': bot.save_chat(args)
SaveCommand ==
    /\ pc = "prompt"
    /\ \E line \in SaveLines : custom_filename' = Args(Strip(line))
    /\ out' = Notice("nothing", << >>)
    /\ pc' = "save"
    /\ UNCHANGED << bot, files, now, confirm, prompt, stream, pos,
                    response_text, printed, save >>

\* save_chat, lines 198-230, called by the save command or on the way out
SaveChat ==
    /\ pc \in {"save", "exit_save"}
    /\ IF chat_history = << >>
       THEN /\ out' = Notice("no_chat_to_save", << >>)
            /\ UNCHANGED << files, current_chat_file >>
       ELSE LET filename == ResolveFilename(custom_filename, current_chat_file, now)
            IN  \/ SaveSucceeds(filename)
                \/ OpenFails(filename)
                \/ DumpFails(filename)
    /\ pc' = IF pc = "save" THEN "prompt" ELSE "done"
    /\ custom_filename' = None
    /\ UNCHANGED << chat_history, system_prompt, now, confirm, prompt, stream,
                    pos, response_text, printed, save >>

(***************************************************************************)
(* ChatBot.list_saved_chats.                                               *)
(***************************************************************************)
\* chat_dir.glob("*.json"): the names in the directory itself
Glob(fs) ==
    { n \in DOMAIN fs : ~Contains(n, <<"/">>) /\ EndsWith(n, JSON_EXT) }

\* sorted(..., key=mtime, reverse=True) of the names: the sort is stable
\* and the directory gives the names in no particular order, so files
\* written in the same instant come in any order
RECURSIVE SortedByMtime(_, _)
SortedByMtime(names, fs) ==
    IF names = {} THEN { << >> }
    ELSE UNION { { <<n>> \o rest : rest \in SortedByMtime(names \ {n}, fs) } :
                 n \in { m \in names :
                          \A k \in names : fs[m].mtime >= fs[k].mtime } }

\* line 235: the file names list_saved_chats may return
Listings(fs) == SortedByMtime(Glob(fs), fs)

ListSavedChatsTouching ==
    /\ pc = "prompt"
    /\ ListLines # {}
    /\ IF Glob(files) = {}
       THEN out' = Notice("no_saved_chats", << >>)
       ELSE \E o \in Listings(files) : out' = Notice("list", o)
    /\ files' = [n \in DOMAIN files |-> File(now)]
    /\ UNCHANGED << bot, now, pc, locals >>

\* lines 232-250
ListSavedChats ==
    /\ pc = "prompt"
    /\ ListLines # {}
    /\ IF Glob(files) = {}
       THEN out' = Notice("no_saved_chats", << >>)
       ELSE \E o \in Listings(files) : out' = Notice("list", o)
    /\ UNCHANGED << bot, files, now, pc, locals >>

\* stat() of line 235 or 244 raises OSError: list_saved_chats does not
\* catch it, main's outer handler does
ListFails ==
    /\ pc = "prompt"
    /\ ListLines # {}
    /\ Glob(files) # {}
    /\ out' = Notice("unexpected_error", <<OS_ERROR>>)
    /\ pc' = "finally"
    /\ UNCHANGED << bot, files, now, locals >>

(***************************************************************************)
(* The other commands of main.                                             *)
(***************************************************************************)
IsDigit(c) == c \in {"0", "1", "2", "3", "4", "5", "6", "7", "8", "9"}

\* whether int(text) returns: an optional sign and decimal digits
IsIntText(text) ==
    LET t == Strip(text)
        d == IF t # << >> /\ Head(t) \in {"+", "-"} THEN Tail(t) ELSE t
    IN  d # << >> /\ \A i \in 1..Len(d) : IsDigit(d[i])

\* print_help()
Help ==
    /\ pc = "prompt"
    /\ HelpLines # {}
    /\ out' = Notice("help", << >>)
    /\ UNCHANGED << bot, files, now, pc, locals >>

\* bot.show_stats(), lines 252-283
ShowStats ==
    /\ pc = "prompt"
    /\ StatsLines # {}
    /\ out' = Notice("stats", IF current_chat_file # None
                              THEN <<current_chat_file>> ELSE << >>)
    /\ UNCHANGED << bot, files, now, pc, locals >>

\* lines 377-382 and display_history, lines 285-302
History ==
    /\ pc = "prompt"
    /\ \E line \in HistoryLines :
          LET a == Args(Strip(line)) IN
          out' = IF a # None /\ ~IsIntText(a)
                 THEN Notice("invalid_number", << >>)
                 ELSE IF chat_history = << >>
                      THEN Notice("no_history", << >>)
                      ELSE Notice("history", << >>)
    /\ UNCHANGED << bot, files, now, pc, locals >>

\* lines 384-386
UnknownCommand ==
    /\ pc = "prompt"
    /\ UnknownLines # {}
    /\ out' = Notice("unknown_command", << >>)
    /\ UNCHANGED << bot, files, now, pc, locals >>

\* lines 358-360: break
Quit ==
    /\ pc = "prompt"
    /\ QuitLines # {}
    /\ out' = Notice("goodbye", << >>)
    /\ pc' = "finally"
    /\ UNCHANGED << bot, files, now, locals >>

\* finally, lines 402-406: the question is asked when there are turns
Finally ==
    /\ pc = "finally"
    /\ IF chat_history # << >>
       THEN /\ pc' = "exit_confirm"
            /\ out' = Notice("save_question", << >>)
       ELSE /\ pc' = "done"
            /\ UNCHANGED out
    /\ UNCHANGED << bot, files, now, locals >>

\* lines 406-408: the answer to "Save chat? (y/n)"
ExitAnswer ==
    /\ pc = "exit_confirm"
    /\ \E answer \in Answers :
          /\ save' = Lower(Strip(answer))
          /\ pc' = IF IsYes(answer) THEN "exit_save" ELSE "done"
    /\ UNCHANGED << bot, files, now, custom_filename, confirm, prompt, stream,
                    pos, response_text, printed, out >>

\* the input() of line 406 raises (EOFError, KeyboardInterrupt): nothing
\* catches it
ExitAbort ==
    /\ pc = "exit_confirm"
    /\ out' = Notice("traceback", << >>)
    /\ pc' = "done"
    /\ UNCHANGED << bot, files, now, locals >>

(***************************************************************************)
(* The command loop.                                                       *)
(***************************************************************************)
Next ==
    \/ Tick
    \/ ReadInterrupt
    \/ ReadEOF
    \/ EmptyLine
    \/ NoCommandName
    \/ ChatCall(LoopStreams)
    \/ ChatCallInterrupted
    \/ StreamStep
    \/ StreamEnd
    \/ PostLoop
    \/ ChatInterrupt
    \/ ChatError
    \/ ChatReturn
    \/ ClearChat
    \/ ClearAnswer
    \/ ClearDecide
    \/ ClearInterrupt
    \/ ClearEOF
    \/ SaveCommand
    \/ SaveChat
    \/ ListSavedChats
    \/ ListFails
    \/ Help
    \/ ShowStats
    \/ History
    \/ UnknownCommand
    \/ Quit
    \/ Finally
    \/ ExitAnswer
    \/ ExitAbort

Spec == Init /\ [][Next]_vars

(***************************************************************************)
(* chat alone: one exchange has been made, and the engine may stream any   *)
(* sequence of at most MaxEvents chunks.                                   *)
(***************************************************************************)
InitChat ==
    /\ chat_history = << Turn("user", T_Hi), Turn("assistant", T_Hello) >>
    /\ system_prompt = SYSTEM_PROMPT
    /\ current_chat_file = None
    /\ files = << >>
    /\ now = 0
    /\ pc = "prompt"
    /\ custom_filename = None
    /\ confirm = None
    /\ prompt = << >>
    /\ stream = << >>
    /\ pos = 0
    /\ response_text = << >>
    /\ printed = << >>
    /\ save = None
    /\ out = Notice("response", << >>)

NextChat ==
    \/ ChatCall(AllStreams)
    \/ ChatCallInterrupted
    \/ StreamStep
    \/ StreamEnd
    \/ PostLoop
    \/ ChatInterrupt
    \/ ChatError
    \/ ChatReturn

SpecChat == InitChat /\ [][NextChat]_vars

(***************************************************************************)
(* chat when every call succeeds: no fault, and a response of at least     *)
(* two characters.                                                         *)
(***************************************************************************)
NextSuccess ==
    \/ ChatCall(ShortStreams)
    \/ StreamStep
    \/ StreamEnd
    \/ PostLoop /\ out'.kind = "response"
    \/ ChatReturn

SpecSuccess == Init /\ [][NextSuccess]_vars

(***************************************************************************)
(* format_chat_history alone: chat is called with any system prompt and    *)
(* any turns the store can hold.                                           *)
(***************************************************************************)
SystemPrompts == { SYSTEM_PROMPT, <<"O", "k">> }

FormatTurns ==
    { Turn("user", T_Hi), Turn("user", <<"a", " ", "b">>),
      Turn("assistant", T_Hello), Turn("assistant", <<"o", "k">>) }

\* the stores of at most n turns: an assistant turn follows a user turn
Histories(n) ==
    { h \in UNION { [1..k -> FormatTurns] : k \in 0..n } :
        \A i \in 1..Len(h) :
            h[i].role = "assistant" => i > 1 /\ h[i - 1].role = "user" }

InitFormat ==
    /\ chat_history \in Histories(MaxTurns - 2)
    /\ system_prompt \in SystemPrompts
    /\ current_chat_file = None
    /\ files = << >>
    /\ now = 0
    /\ pc = "prompt"
    /\ custom_filename = None
    /\ confirm = None
    /\ prompt = << >>
    /\ stream = << >>
    /\ pos = 0
    /\ response_text = << >>
    /\ printed = << >>
    /\ save = None
    /\ out = Notice("banner", << >>)

NextFormat ==
    \/ ChatCall(LoopStreams)
    \/ StreamStep
    \/ StreamEnd
    \/ PostLoop
    \/ ChatReturn

SpecFormat == InitFormat /\ [][NextFormat]_vars

(***************************************************************************)
(* The claims.                                                             *)
(***************************************************************************)
LastTurn(h) == h[Len(h)]
AllButLast(h) == SubSeq(h, 1, Len(h) - 1)

RolesAlternate(h) ==
    \A i \in 1..Len(h) : h[i].role = IF i % 2 = 1 THEN "user" ELSE "assistant"

\* C1: from the empty store, when every chat call succeeds, the roles
\* alternate user, assistant from the first turn on, the store holds an even
\* number of turns whenever the loop waits for input, and a call adds
\* exactly two turns: one when it starts and one when it keeps the
\* response, so that N calls leave 2N turns.
C1_SuccessfulCallsAlternate ==
    /\ [](/\ RolesAlternate(chat_history)
          /\ pc = "prompt" => Len(chat_history) % 2 = 0)
    /\ [][Len(chat_history') = Len(chat_history) +
            (IF \/ pc = "prompt" /\ pc' = "streaming"
                \/ pc = "post_loop" /\ pc' = "returning"
             THEN 1 ELSE 0)]_vars

C1_Witness ==
    /\ pc = "prompt"
    /\ Len(chat_history) = 4
    /\ chat_history[3].role = "user"
    /\ chat_history[4].role = "assistant"

\* C2: whenever the loop waits for input, the store is empty or ends with
\* an assistant turn.
C2_NoTrailingUserTurn ==
    pc = "prompt" =>
        \/ chat_history = << >>
        \/ LastTurn(chat_history).role = "assistant"

\* C3: a call whose response is shorter than two characters once stripped
\* returns with the store as long as it was before the call: the call adds
\* the user turn, nothing changes the store while the stream is consumed,
\* and the user turn is removed, with no assistant turn added.
C3_TooShortLeavesLength ==
    [][/\ (pc = "prompt" /\ pc' = "streaming") =>
              /\ AllButLast(chat_history') = chat_history
              /\ LastTurn(chat_history').role = "user"
       /\ (pc = "streaming" /\ pc' \in {"streaming", "post_loop"}) =>
              chat_history' = chat_history
       /\ (pc = "post_loop" /\ pc' = "returning" /\ Len(Strip(response_text)) < 2) =>
              /\ chat_history' = AllButLast(chat_history)
              /\ LastTurn(chat_history).role = "user"
       /\ pc = "returning" => chat_history' = chat_history]_vars

C3_Witness ==
    /\ pc = "returning"
    /\ out.kind = "no_response"
    /\ response_text # << >>
    /\ Strip(response_text) = << >>
    /\ Len(chat_history) = 2

\* C4: an interrupt or an error of the engine while the stream is consumed
\* removes the pending user turn, adds no assistant turn, is reported, and
\* the call returns to the loop, which waits for the next line.
C4_FaultRollsBack ==
    [][/\ (pc = "streaming" /\ pc' = "returning") =>
              /\ LastTurn(chat_history).role = "user"
              /\ chat_history' = AllButLast(chat_history)
              /\ out'.kind \in {"interrupted", "chat_error"}
       /\ (pc = "streaming" /\ pc' # "returning") =>
              /\ pc' \in {"streaming", "post_loop"}
              /\ chat_history' = chat_history
       /\ pc = "returning" =>
              /\ pc' = "prompt"
              /\ chat_history' = chat_history]_vars

C4_Witness ==
    /\ pc = "prompt"
    /\ out.kind = "chat_error"
    /\ Len(chat_history) = 2
    /\ LastTurn(chat_history).role = "assistant"

\* the k-th chunk is exactly the stop marker, and every chunk before it is
\* a fragment without the marker and without a finish signal
MarkerEnds(s, k) ==
    /\ k \in 1..Len(s)
    /\ Len(s[k].choices) > 0
    /\ s[k].choices[1].text = EOT_ID
    /\ \A i \in 1..(k - 1) :
          /\ Len(s[i].choices) > 0
          /\ ~Contains(s[i].choices[1].text, EOT_ID)
          /\ s[i].choices[1].finish_reason = NoReason

RECURSIVE Fragments(_, _)
Fragments(s, k) ==
    IF k = 0 THEN << >> ELSE Fragments(s, k - 1) \o s[k].choices[1].text

\* C5: when the stream is fragments without the marker and then the marker
\* itself, the assistant turn chat appends holds the fragments before the
\* marker, joined in order and stripped, and it follows the user turn; the
\* turn is appended whenever that text has two characters or more.
C5_MarkerEndsResponse ==
    \A k \in 1..Len(stream) :
        (pc = "returning" /\ MarkerEnds(stream, k)) =>
            LET text == Strip(Fragments(stream, k - 1)) IN
            /\ out.kind = "response" =>
                  /\ LastTurn(chat_history) = Turn("assistant", text)
                  /\ chat_history[Len(chat_history) - 1].role = "user"
            /\ (Len(text) >= 2 /\ out.kind \in {"response", "no_response"}) =>
                  out.kind = "response"

C5_Witness ==
    /\ pc = "returning"
    /\ stream = << Ev(<<"H", "e", "l">>, NoReason), Ev(<<"l", "o">>, NoReason),
                   Ev(<<"!">>, NoReason), Ev(EOT_ID, NoReason) >>
    /\ chat_history = << Turn("user", T_Hi), Turn("assistant", T_Hello),
                         Turn("user", T_Hi), Turn("assistant", T_Hello) >>

\* save_chat is about to write: it was called with turns in the store
SaveRuns == pc \in {"save", "exit_save"} /\ chat_history # << >>

\* the name the claim gives for the save under way
NameByOrder ==
    IF custom_filename # None
    THEN IF EndsWith(custom_filename, JSON_EXT)
         THEN custom_filename
         ELSE custom_filename \o JSON_EXT
    ELSE IF current_chat_file # None
         THEN current_chat_file
         ELSE CHAT_PREFIX \o Decimal(now) \o JSON_EXT

\* every file but this one is as it was
OnlyWrites(name) ==
    \A n \in DOMAIN files' :
        n # name => n \in DOMAIN files /\ files'[n] = files[n]

\* C6: save writes to the explicit name, with the extension appended unless
\* the name ends with it, else to the associated name, else to the name
\* generated from the clock; it writes no other file, and a save that
\* succeeds reports that name.
C6_NameResolutionOrder ==
    [][SaveRuns =>
          /\ OnlyWrites(NameByOrder)
          /\ out'.kind = "saved" =>
                /\ out'.names = <<NameByOrder>>
                /\ NameByOrder \in DOMAIN files'
                /\ files'[NameByOrder].mtime = now]_vars

C6_Witness ==
    /\ pc = "prompt"
    /\ out = Notice("saved", << <<"a">> \o JSON_EXT >>)
    /\ GeneratedName(0) \in DOMAIN files
    /\ (<<".", ".", "/", "b">> \o JSON_EXT) \in DOMAIN files

\* C7: a save that succeeds associates the conversation with the name it
\* wrote; a save without an explicit name, once a name is associated, writes
\* that file, creates no other and keeps the association; a save with an
\* explicit name that succeeds associates that name; and the association
\* changes only by a save that succeeds or a confirmed clear.
C7_AssociationKept ==
    [][/\ (SaveRuns /\ out'.kind = "saved") =>
              /\ current_chat_file' = out'.names[1]
              /\ current_chat_file' \in DOMAIN files'
       /\ (SaveRuns /\ custom_filename = None /\ current_chat_file # None) =>
              /\ current_chat_file' = current_chat_file
              /\ DOMAIN files' \subseteq DOMAIN files \cup {current_chat_file}
              /\ OnlyWrites(current_chat_file)
              /\ out'.kind = "saved" => files'[current_chat_file].mtime = now
       /\ (SaveRuns /\ custom_filename # None /\ out'.kind = "saved") =>
              /\ current_chat_file' \in
                    {custom_filename, custom_filename \o JSON_EXT}
              /\ EndsWith(current_chat_file', JSON_EXT)
       /\ current_chat_file' # current_chat_file =>
              \/ SaveRuns /\ out'.kind = "saved"
              \/ pc = "clear_decide" /\ out'.kind = "cleared"]_vars

C7_Witness ==
    /\ pc = "prompt"
    /\ out = Notice("saved", <<GeneratedName(0)>>)
    /\ current_chat_file = GeneratedName(0)
    /\ files[GeneratedName(0)].mtime = 1
    /\ DOMAIN files = {GeneratedName(0)}

\* C8: a save that fails reports the failure and leaves the turns, the
\* system prompt and the associated name as they were.
C8_FailedSaveKeepsState ==
    [][(SaveRuns /\ out'.kind # "saved") =>
          /\ out'.kind = "save_error"
          /\ chat_history' = chat_history
          /\ system_prompt' = system_prompt
          /\ current_chat_file' = current_chat_file]_vars

C8_Witness ==
    /\ pc = "prompt"
    /\ out.kind = "save_error"
    /\ current_chat_file = None
    /\ DOMAIN files # {}
    /\ chat_history # << >>

\* C9: the list that directly follows a save that succeeded shows the name
\* the conversation is now associated with, and shows it first when no other
\* file was written later.
C9_SavedNameListedFirst ==
    [][(pc = "prompt" /\ out.kind = "saved"
            /\ out'.kind \in {"list", "no_saved_chats"}) =>
          /\ \E i \in 1..Len(out'.names) : out'.names[i] = current_chat_file
          /\ (\A n \in DOMAIN files :
                 files[n].mtime <= files[current_chat_file].mtime) =>
                out'.names[1] = current_chat_file]_vars

\* C10: a clear request leaves the turns and the associated name as they
\* were until it is confirmed, and also when the answer is not a
\* confirmation; confirmed, it empties the store and drops the name.
C10_ClearNeedsConfirmation ==
    [][/\ (pc = "prompt" /\ pc' = "clear_confirm") =>
              UNCHANGED << chat_history, current_chat_file >>
       /\ pc = "clear_confirm" =>
              UNCHANGED << chat_history, current_chat_file >>
       /\ (pc = "clear_decide" /\ confirm # <<"y">>) =>
              UNCHANGED << chat_history, current_chat_file >>
       /\ (pc = "clear_decide" /\ confirm = <<"y">>) =>
              /\ chat_history' = << >>
              /\ current_chat_file' = None]_vars

C10_Witness ==
    /\ pc = "prompt"
    /\ out.kind = "cleared"
    /\ chat_history = << >>
    /\ current_chat_file = None
    /\ \E n \in DOMAIN files : n = <<"a">> \o JSON_EXT

\* where the program is while the loop of lines 345-395 runs
LoopPcs ==
    {"prompt", "streaming", "post_loop", "returning", "clear_confirm",
     "clear_decide", "save"}

\* what the program prints for the errors it is meant to survive: a failed,
\* interrupted or degenerate generation, a failed save, a failed list, a
\* malformed argument
RecoverableNotice(o) ==
    \/ o.kind \in {"chat_error", "interrupted", "no_response", "save_error",
                   "invalid_number"}
    \/ o = Notice("unexpected_error", <<OS_ERROR>>)

\* C11: while the loop runs, a step that reports a generation failure, an
\* interruption or a degenerate response, a save or list I/O error, or a
\* malformed argument leaves the program in the loop.
C11_RecoverableErrorsKeepLoop ==
    [][(pc \in LoopPcs /\ RecoverableNotice(out')) => pc' \in LoopPcs]_vars

\* C12: a line that begins with the marker and names no known command, the
\* marker alone included, is answered by a notice: the turns and the
\* associated name are unchanged and the program prompts again.
C12_UnknownCommandIsNoticed ==
    [][(pc = "prompt" /\ out' # out
        /\ \/ out'.kind = "unknown_command"
           \/ out' = Notice("unexpected_error", <<INDEX_ERROR>>)) =>
          /\ pc' = "prompt"
          /\ out'.kind = "unknown_command"
          /\ UNCHANGED << chat_history, current_chat_file >>]_vars

\* C13: when the loop is left, by quit or by an exception, the save
\* question is asked when there are turns and not asked when there are
\* none; it is asked only there, so once; and save_chat runs on the way out
\* only after the answer y.
C13_SaveAskedOnceOnExit ==
    [][/\ pc = "finally" =>
              IF chat_history # << >>
              THEN pc' = "exit_confirm" /\ out'.kind = "save_question"
              ELSE pc' = "done" /\ out' = out
       /\ pc' = "finally" => pc \in LoopPcs
       /\ (pc' = "exit_confirm" \/ (out' # out /\ out'.kind = "save_question")) =>
              pc = "finally"
       /\ pc \in {"exit_confirm", "exit_save", "done"} =>
              pc' \in {"exit_save", "done"}
       /\ pc' = "exit_save" => pc = "exit_confirm" /\ save' = <<"y">>
       /\ (pc \notin LoopPcs /\ << files, bot >>' # << files, bot >>) =>
              pc = "exit_save"]_vars

C13_Witness ==
    /\ pc = "done"
    /\ save = <<"y">>
    /\ out.kind = "saved"
    /\ current_chat_file = GeneratedName(1)

\* the parts the claim names: the opening with the system prompt, the part
\* of a turn, and the open assistant header
SystemPart ==
    BEGIN_OF_TEXT \o START_HEADER_ID \o R_system \o END_HEADER_ID
        \o <<"\n", "\n">> \o system_prompt \o EOT_ID

TurnPart(t) ==
    START_HEADER_ID \o (IF t.role = "user" THEN R_user ELSE R_assistant)
        \o END_HEADER_ID \o <<"\n", "\n">> \o t.content \o EOT_ID

AssistantHeader ==
    START_HEADER_ID \o R_assistant \o END_HEADER_ID \o <<"\n", "\n">>

\* how many characters come before the part of turn i
RECURSIVE PartStart(_)
PartStart(i) ==
    IF i = 1 THEN Len(SystemPart)
    ELSE PartStart(i - 1) + Len(TurnPart(chat_history[i - 1]))

\* C14: the prompt chat sends to the engine is the begin marker, the system
\* header, the system prompt and an end-of-turn marker, then for each turn
\* in store order its header, its content and an end-of-turn marker, then
\* the assistant header, after which nothing follows.
C14_PromptFormat ==
    pc \in {"streaming", "post_loop"} =>
        LET n == Len(chat_history) IN
        /\ Len(prompt) = PartStart(n + 1) + Len(AssistantHeader)
        /\ SubSeq(prompt, 1, Len(SystemPart)) = SystemPart
        /\ \A i \in 1..n :
              SubSeq(prompt, PartStart(i) + 1, PartStart(i + 1)) =
                  TurnPart(chat_history[i])
        /\ SubSeq(prompt, PartStart(n + 1) + 1, Len(prompt)) = AssistantHeader
        /\ ~EndsWith(prompt, EOT_ID)

C14_Witness ==
    /\ pc = "streaming"
    /\ system_prompt = <<"O", "k">>
    /\ Len(chat_history) = 3
    /\ chat_history[2] = Turn("assistant", <<"o", "k">>)
    /\ StartsWith(prompt, BEGIN_OF_TEXT)

\* what list, help, stats and history print, a list that fails included
ReadOnlyNotice(o) ==
    \/ o.kind \in {"list", "no_saved_chats", "help", "stats", "history",
                   "no_history", "invalid_number"}
    \/ o = Notice("unexpected_error", <<OS_ERROR>>)

\* C15: a list, help, stats or history command leaves the turns, the system
\* prompt and the associated name as they were, and leaves every file as it
\* was: none is created, written or removed.
C15_ReadOnlyCommands ==
    [][(pc = "prompt" /\ ReadOnlyNotice(out')) =>
          /\ chat_history' = chat_history
          /\ system_prompt' = system_prompt
          /\ current_chat_file' = current_chat_file
          /\ files' = files]_vars

C15_Witness ==
    /\ pc = "prompt"
    /\ out.kind = "list"
    /\ Len(out.names) = 2
    /\ current_chat_file # None
    /\ \E n \in DOMAIN files : files[n].mtime < now

\* the text of a chunk, none when it has no choice
TextOf(output) ==
    IF Len(output.choices) = 0 THEN << >> ELSE output.choices[1].text

\* the texts of the first k chunks, joined
RECURSIVE Joined(_, _)
Joined(s, k) == IF k = 0 THEN << >> ELSE Joined(s, k - 1) \o TextOf(s[k])

\* a chunk that neither carries a finish signal nor holds the marker
Plain(output) ==
    \/ Len(output.choices) = 0
    \/ /\ output.choices[1].finish_reason = NoReason
       /\ ~Contains(output.choices[1].text, EOT_ID)

\* the text of s before the first occurrence of p
RECURSIVE BeforeMarker(_, _)
BeforeMarker(s, p) ==
    IF s = << >> \/ StartsWith(s, p) THEN << >>
    ELSE <<Head(s)>> \o BeforeMarker(Tail(s), p)

\* the k-th chunk is the first that holds the marker, and no finish signal
\* comes with it or before it
MarkerIn(s, k) ==
    /\ k \in 1..Len(s)
    /\ Len(s[k].choices) > 0
    /\ s[k].choices[1].finish_reason = NoReason
    /\ Contains(s[k].choices[1].text, EOT_ID)
    /\ \A i \in 1..(k - 1) : Plain(s[i])

\* C16: when a chunk holds the marker, the loop ends at that chunk, the
\* response and what is printed are the earlier texts and the text of that
\* chunk before the marker, and the assistant turn holds that text stripped.
C16_TextAfterMarkerDropped ==
    \A k \in 1..Len(stream) :
        MarkerIn(stream, k) =>
            LET text == Joined(stream, k - 1)
                            \o BeforeMarker(stream[k].choices[1].text, EOT_ID)
            IN  /\ pc = "post_loop" =>
                      pos = k /\ response_text = text /\ printed = text
                /\ (pc = "returning" /\ out.kind = "response") =>
                      LastTurn(chat_history).content = Strip(text)

\* the k-th chunk is the first that carries a finish signal, and no marker
\* comes before it
FinishAt(s, k) ==
    /\ k \in 1..Len(s)
    /\ Len(s[k].choices) > 0
    /\ s[k].choices[1].finish_reason # NoReason
    /\ \A i \in 1..(k - 1) : Plain(s[i])

\* C17: when a chunk carries a finish signal, whatever the reason, the loop
\* ends at that chunk: no later chunk is requested, and the response and
\* what is printed are the texts of the chunks before it.
C17_AnyFinishStops ==
    \A k \in 1..Len(stream) :
        FinishAt(stream, k) =>
            /\ pos <= k
            /\ pc = "post_loop" =>
                  /\ pos = k
                  /\ response_text = Joined(stream, k - 1)
                  /\ printed = Joined(stream, k - 1)

\* C18: an interrupt while the program waits for input is caught and the
\* program prompts again, and the loop is left only by a quit command.
C18_LoopLeftOnlyByQuit ==
    [][/\ (out' # out /\ out'.kind = "type_quit") => pc' = "prompt"
       /\ (pc = "clear_confirm" /\ out'.kind = "type_quit") =>
              UNCHANGED << chat_history, system_prompt, current_chat_file >>
       /\ (pc \in LoopPcs /\ pc' \notin LoopPcs) =>
              pc = "prompt" /\ out'.kind = "goodbye"]_vars

\* C19: whenever a file name is associated the store holds a turn; and the
\* store becomes empty only by a confirmed clear, which drops the name, or
\* by a rollback while no name is associated.
C19_AssociatedStoreNotEmpty ==
    /\ [](current_chat_file # None => chat_history # << >>)
    /\ [][(chat_history # << >> /\ chat_history' = << >>) =>
             /\ current_chat_file' = None
             /\ pc = "clear_decide" \/ current_chat_file = None]_vars

C19_Witness ==
    /\ pc = "prompt"
    /\ out.kind = "interrupted"
    /\ current_chat_file # None
    /\ Len(chat_history) = 2
    /\ LastTurn(chat_history).role = "assistant"

\* where the program is while chat runs
ChatPcs == {"streaming", "post_loop", "returning"}

\* C20: a chat call appends a user turn, then either appends an assistant
\* turn or removes the user turn it appended, and changes nothing else: the
\* turns that were there stay in place, and the associated name stays.
C20_ChatChangesOnlyTail ==
    [][/\ (pc = "prompt" /\ Len(chat_history') > Len(chat_history)) =>
              /\ pc' = "streaming"
              /\ AllButLast(chat_history') = chat_history
              /\ LastTurn(chat_history').role = "user"
       /\ (pc \in {"streaming", "post_loop"} /\ chat_history' # chat_history) =>
              /\ pc' = "returning"
              /\ \/ /\ out'.kind = "response"
                    /\ AllButLast(chat_history') = chat_history
                    /\ LastTurn(chat_history').role = "assistant"
                 \/ /\ out'.kind \in {"no_response", "interrupted", "chat_error"}
                    /\ chat_history' = AllButLast(chat_history)
       /\ (pc \in {"streaming", "post_loop"} /\ pc' = "returning") =>
              chat_history' # chat_history
       /\ pc = "returning" => chat_history' = chat_history
       /\ (pc \in ChatPcs \/ pc' \in ChatPcs) =>
              current_chat_file' = current_chat_file]_vars

=============================================================================
